---------------------------- MODULE Spec2Model ----------------------------
(***************************************************************************)
(* A model of Playboy (src/src/lib.rs): a Game Boy emulator front end for  *)
(* the Playdate.  It covers the crank impulse detector, the per-frame      *)
(* update handler, the scaler, the dither rules, the bit-packed            *)
(* framebuffer writes and the save/load callbacks.                         *)
(***************************************************************************)
EXTENDS Integers, Sequences, FiniteSets, TLC

VARIABLES
    processor,          \* State.processor: "Some" (a Cpu) or "None"
    last_crank_change,  \* State.last_crank_change
    joypad,             \* processor.mem.joypad, the eight flags
    finished_frame,     \* processor.gpu.finished_frame, as the id of a shade grid
    framebuffer,        \* the display's frame buffer (rows of LCD_ROWSIZE bytes)
    crank_change,       \* update's local: the raw reading of the latest poll
    processed_crank,    \* update's local: the impulse of the latest poll
    trace,              \* history: the calls the latest update made, in order
    result,             \* what the latest update returned: "Ok", "Err" or "None"
    files,              \* the file system: path -> bytes (absent paths are not in DOMAIN)
    loaded,             \* what the latest load callback returned
    saved,              \* history: game name -> the bytes of its latest completed save
    callback,           \* history: the latest callback and its arguments
    fs_calls,           \* history: the file system calls of the latest callback
    panicked,           \* an unwrap() failed: the process is gone
    iter                \* the locals of one iteration of update's drawing loop

vars == <<processor, last_crank_change, joypad, finished_frame, framebuffer,
          crank_change, processed_crank, trace, result,
          files, loaded, saved, callback, fs_calls, panicked, iter>>

sessionVars == <<processor, last_crank_change, joypad, finished_frame,
                 crank_change, processed_crank, trace, result>>
frameVars == <<framebuffer>>
saveVars == <<files, loaded, saved, callback, fs_calls, panicked>>

---------------------------------------------------------------------------
(* Program constants *)

\* const START_X: usize = 67
START_X == 67
\* gbrs_core::constants::SCREEN_WIDTH
SCREEN_WIDTH == 160
\* crankstart_sys::LCD_ROWS
LCD_ROWS == 240
\* the row stride in bytes, the literal in draw_pixel_at
LCD_ROWSIZE == 52
\* const SCALE_FACTOR: f32 = 1.6666666667.  The nearest f32 is
\* 13981013 / 2^23 = 1.66666662693..., which is what the program divides by.
SCALE_MANTISSA == 13981013
F32_FRACTION_BITS == 23
SCALE_DENOMINATOR == 2 ^ F32_FRACTION_BITS

---------------------------------------------------------------------------
(* f32 arithmetic, on exact fractions.  TLC's integers are 32 bits wide, so *)
(* the wide quotient and product are computed a few bits at a time.         *)

Min(a, b) == IF a < b THEN a ELSE b

\* floor(log2 n) for n >= 1; -1 stands for the binade [1/2, 1) of a quotient
\* whose integer part is 0.
RECURSIVE Exponent(_)
Exponent(n) == IF n < 1 THEN -1 ELSE 1 + Exponent(n \div 2)

\* Long division of (r * 2^bits) by SCALE_MANTISSA, six bits at a time:
\* <<quotient, remainder>>, starting from quotient q and remainder r.
RECURSIVE LongDivide(_, _, _)
LongDivide(q, r, bits) ==
    IF bits = 0 THEN <<q, r>>
    ELSE LET s == Min(bits, 6)
         IN LongDivide(q * (2 ^ s) + ((r * (2 ^ s)) \div SCALE_MANTISSA),
                       (r * (2 ^ s)) % SCALE_MANTISSA, bits - s)

\* seeded fault: a scaler that divides by 3/2
DivideByThreeHalves(n) == (2 * n) \div 3

\* (n as f32 / SCALE_FACTOR).floor() as usize.  The exact quotient is
\* q + r / SCALE_MANTISSA.  The f32 division rounds it to the nearest value
\* with a 24 bit significand, so the floor is q + 1 exactly when the exact
\* quotient lies within half an ulp below q + 1.
DivideByScale(n) ==
    LET qr == LongDivide(0, n, F32_FRACTION_BITS)
        q == qr[1]
        r == qr[2]
        halfUlpInverse == 2 ^ (F32_FRACTION_BITS + 1 - Exponent(q))
        roundsUp == r > 0 /\ (SCALE_MANTISSA - r) <= (SCALE_MANTISSA \div halfUlpInverse)
    IN IF roundsUp THEN q + 1 ELSE q

\* (w as f32 * SCALE_FACTOR).floor() as usize.  The exact product is
\* w * SCALE_MANTISSA / 2^23 = whole + fraction / 2^23, computed from the two
\* halves of the mantissa; the f32 product rounds to nearest as above.
MultiplyByScale(w) ==
    LET high == SCALE_MANTISSA \div 4096
        low == SCALE_MANTISSA % 4096
        units == w * high + ((w * low) \div 4096)     \* in 2^-11
        whole == units \div 2048
        fraction == (units % 2048) * 4096 + ((w * low) % 4096)
        halfUlp == IF Exponent(whole) >= 1 THEN 2 ^ (Exponent(whole) - 1) ELSE 0
        roundsUp == fraction > 0 /\ (SCALE_DENOMINATOR - fraction) <= halfUlp
    IN IF roundsUp THEN whole + 1 ELSE whole

\* update: playdate_x_pixels and playdate_y_pixels
playdate_x_pixels == MultiplyByScale(SCREEN_WIDTH)
playdate_y_pixels == LCD_ROWS

---------------------------------------------------------------------------
(* u8 bit operations *)

RECURSIVE AndBits(_, _, _)
AndBits(a, b, n) ==
    IF n = 0 THEN 0
    ELSE (IF a % 2 = 1 /\ b % 2 = 1 THEN 1 ELSE 0) + 2 * AndBits(a \div 2, b \div 2, n - 1)

RECURSIVE OrBits(_, _, _)
OrBits(a, b, n) ==
    IF n = 0 THEN 0
    ELSE (IF a % 2 = 1 \/ b % 2 = 1 THEN 1 ELSE 0) + 2 * OrBits(a \div 2, b \div 2, n - 1)

Bytes == 0..255
\* a & b and a | b on u8, tabulated once
AndTable == [a \in Bytes |-> [b \in Bytes |-> AndBits(a, b, 8)]]
OrTable == [a \in Bytes |-> [b \in Bytes |-> OrBits(a, b, 8)]]

---------------------------------------------------------------------------
(* The shade grid: gameboy.gpu.finished_frame, one GreyShade per pixel in  *)
(* row-major order.  The emulator core is outside this program; the model  *)
(* lets its step produce any grid of Grids.                                *)

ShadeOrder == <<"Black", "DarkGrey", "LightGrey", "White">>

\* "White": every pixel White.  "Bands": diagonal bands of the four shades.
Grids == {"White", "Bands"}

\* finished_frame[index] of grid `grid`
ShadeAt(grid, index) ==
    IF grid = "White" THEN "White"
    ELSE ShadeOrder[1 + (((index % SCREEN_WIDTH) + (index \div SCREEN_WIDTH)) % 4)]

---------------------------------------------------------------------------
(* The frame buffer: LCD_ROWS * LCD_ROWSIZE bytes.  Byte i of the slice is   *)
(* held at [i \div LCD_ROWSIZE][i % LCD_ROWSIZE].                            *)

\* Graphics::clear(kColorBlack) and Graphics::clear(kColorWhite)
BlackFrame == [r \in 0..(LCD_ROWS - 1) |-> [c \in 0..(LCD_ROWSIZE - 1) |-> 0]]
WhiteFrame == [r \in 0..(LCD_ROWS - 1) |-> [c \in 0..(LCD_ROWSIZE - 1) |-> 255]]
\* no frame at hand (the specifications of the callbacks and of the scaler)
NoFrame == << >>

ByteAt(frame, i) == frame[i \div LCD_ROWSIZE][i % LCD_ROWSIZE]
WithByte(frame, i, b) == [frame EXCEPT ![i \div LCD_ROWSIZE][i % LCD_ROWSIZE] = b]

\* seeded faults: an image drawn from column 0; a byte filled from its lowest bit
shifted_x_unmargined(raw_x) == raw_x
bit_index_lsb(raw_x) == (raw_x + START_X) % 8

\* draw_pixel_at's addressing: x, byte_index and bit_index
shifted_x(raw_x) == raw_x + START_X
byte_index(raw_x, y) == y * LCD_ROWSIZE + (shifted_x(raw_x) \div 8)
bit_index(raw_x) == 7 - (shifted_x(raw_x) - (shifted_x(raw_x) \div 8) * 8)

\* fn draw_pixel_at(framebuffer, raw_x, y, white).  `&` and `|` on u8 are
\* looked up in AndTable and OrTable; !(1 << bit_index) as u8 is 255 - 2^bit_index.
draw_pixel_at(frame, raw_x, y, white) ==
    LET index == byte_index(raw_x, y)
        bit == 2 ^ bit_index(raw_x)                      \* 1 << bit_index
        mask == 255 - bit
        desired_bit == IF white THEN 1 ELSE 0
        frame_byte == OrTable[AndTable[ByteAt(frame, index)][mask]][desired_bit * bit]
    IN WithByte(frame, index, frame_byte)

\* seeded fault: a dither that does not shift its pattern on odd rows
should_be_white_unphased(shade_at, x, y) ==
    CASE shade_at = "Black" -> FALSE
      [] shade_at = "DarkGrey" -> x % 3 = 0
      [] shade_at = "LightGrey" -> x % 2 = 0
      [] shade_at = "White" -> TRUE

\* the match on shade_at in update: what is passed to draw_pixel_at as `white`
should_be_white(shade_at, x, y) ==
    CASE shade_at = "Black" -> FALSE
      [] shade_at = "DarkGrey" -> (x + (y % 2)) % 3 = 0
      [] shade_at = "LightGrey" -> (x + (y % 2)) % 2 = 0
      [] shade_at = "White" -> TRUE

\* update: the scaler's lines of the loop body.  DivideByScale is tabulated
\* over the coordinates the loops pass.
ScaleTable == [n \in 0..(8 * LCD_ROWSIZE - 1) |-> DivideByScale(n)]
gameboy_x(x) == ScaleTable[x]
gameboy_y(y) == ScaleTable[y]
gameboy_lcd_index(x, y) == gameboy_y(y) * SCREEN_WIDTH + gameboy_x(x)

\* One iteration of update's inner loop.  With `marking` the same write is
\* made with every pixel on, into a mask: the mask then holds a 1 exactly at
\* the positions the loop wrote.
LoopBody(frame, grid, x, y, marking) ==
    LET shade_at == ShadeAt(grid, gameboy_lcd_index(x, y))
    IN draw_pixel_at(frame, x, y, marking \/ should_be_white(shade_at, x, y))

\* for x in lo..hi: the iterations run in the code's order; the range is
\* halved, and the first half is finished before the second starts, only to
\* keep the evaluation shallow.
RECURSIVE DrawColumns(_, _, _, _, _, _)
DrawColumns(frame, grid, y, lo, hi, marking) ==
    IF hi <= lo THEN frame
    ELSE IF hi = lo + 1 THEN LoopBody(frame, grid, lo, y, marking)
    ELSE LET mid == (lo + hi) \div 2
             first == DrawColumns(frame, grid, y, lo, mid, marking)
         IN IF DOMAIN first = DOMAIN frame
            THEN DrawColumns(first, grid, y, mid, hi, marking)
            ELSE first

\* for y in lo..hi { for x in 0..playdate_x_pixels { ... } }
RECURSIVE DrawRows(_, _, _, _, _)
DrawRows(frame, grid, lo, hi, marking) ==
    IF hi <= lo THEN frame
    ELSE IF hi = lo + 1 THEN DrawColumns(frame, grid, lo, 0, playdate_x_pixels, marking)
    ELSE LET mid == (lo + hi) \div 2
             first == DrawRows(frame, grid, lo, mid, marking)
         IN IF DOMAIN first = DOMAIN frame
            THEN DrawRows(first, grid, mid, hi, marking)
            ELSE first

\* update's drawing loop over the whole frame
DrawScreen(frame, grid) == DrawRows(frame, grid, 0, playdate_y_pixels, FALSE)
\* the positions that loop writes, as a frame with a 1 at each of them
WrittenMask == DrawRows(BlackFrame, "White", 0, playdate_y_pixels, TRUE)

\* The frames the session can hold are few; the loop's results on them are
\* tabulated once (TLC evaluates a constant definition once) and looked up.
\* A frame that is not in the table goes through the loop.
DrawnOnce == [g \in Grids |-> DrawScreen(BlackFrame, g)]
DrawnTwice == [g \in Grids |-> [h \in Grids |-> DrawScreen(DrawnOnce[g], h)]]

\* seeded fault: an update that draws nothing
ComposeNothing(frame, grid) == frame

\* update's drawing loop, as update applies it to the frame it got
ComposeFrame(frame, grid) ==
    IF frame = BlackFrame THEN DrawnOnce[grid]
    ELSE IF \E g \in Grids : frame = DrawnOnce[g]
         THEN DrawnTwice[CHOOSE g \in Grids : frame = DrawnOnce[g]][grid]
         ELSE DrawScreen(frame, grid)

---------------------------------------------------------------------------
(* The crank *)

\* the largest crank reading the model polls, in either direction
MaxCrank == 1
\* what System::get_crank_change can return: the change of the crank angle,
\* in a unit of the model's choosing (the program only tests sign and zero)
CrankReadings == (0 - MaxCrank)..MaxCrank

\* seeded fault: an impulse that is the reading itself
process_crank_change_unsuppressed(new_crank, old_crank) == new_crank

\* fn process_crank_change(new_crank, old_crank)
process_crank_change(new_crank, old_crank) ==
    IF old_crank > 0 /\ new_crank > 0 THEN 0
    ELSE IF old_crank < 0 /\ new_crank < 0 THEN 0
    ELSE IF new_crank = 0 THEN 0
    ELSE new_crank

---------------------------------------------------------------------------
(* The buttons: PDButtons is a bit set *)

kButtonLeft == 1
kButtonRight == 2
kButtonUp == 4
kButtonDown == 8
kButtonB == 16
kButtonA == 32

\* what System::get_button_state can report as held: two sets that between
\* them hold every button, so each button is seen held and not held
ButtonStates == {kButtonA + kButtonDown + kButtonLeft,
                 kButtonB + kButtonUp + kButtonRight}

\* (btns_held & button) == button
Held(btns_held, button) == AndTable[btns_held][button] = button

\* a Cpu's joypad before any update
JoypadReleased ==
    [a_pressed |-> FALSE, b_pressed |-> FALSE, up_pressed |-> FALSE,
     down_pressed |-> FALSE, left_pressed |-> FALSE, right_pressed |-> FALSE,
     start_pressed |-> FALSE, select_pressed |-> FALSE]

\* seeded fault: start pressed whenever the impulse is not negative
JoypadWrittenNonNegative(btns_held, impulse) ==
    [a_pressed |-> Held(btns_held, kButtonA),
     b_pressed |-> Held(btns_held, kButtonB),
     up_pressed |-> Held(btns_held, kButtonUp),
     down_pressed |-> Held(btns_held, kButtonDown),
     left_pressed |-> Held(btns_held, kButtonLeft),
     right_pressed |-> Held(btns_held, kButtonRight),
     start_pressed |-> impulse >= 0,
     select_pressed |-> impulse < 0]

\* update: the eight assignments to gameboy.mem.joypad
JoypadWritten(btns_held, impulse) ==
    [a_pressed |-> Held(btns_held, kButtonA),
     b_pressed |-> Held(btns_held, kButtonB),
     up_pressed |-> Held(btns_held, kButtonUp),
     down_pressed |-> Held(btns_held, kButtonDown),
     left_pressed |-> Held(btns_held, kButtonLeft),
     right_pressed |-> Held(btns_held, kButtonRight),
     start_pressed |-> impulse > 0,
     select_pressed |-> impulse < 0]

---------------------------------------------------------------------------
(* The file system and the save callbacks *)

\* the longest save blob of the model
MaxBlobLen == 2
\* the byte values the model's blobs are made of
BlobBytes == {0, 255}
Games == {"game1", "game2"}
ExpectedSizes == 0..(MaxBlobLen + 1)

RECURSIVE BlobsOfLength(_)
BlobsOfLength(n) ==
    IF n = 0 THEN {<< >>}
    ELSE {Append(b, v) : b \in BlobsOfLength(n - 1), v \in BlobBytes}
Blobs == UNION {BlobsOfLength(n) : n \in 0..MaxBlobLen}

\* seeded fault: a blob of 0xFF bytes for a missing save
Ones(n) == [i \in 1..n |-> 255]

\* vec![0; n]
Zeroes(n) == [i \in 1..n |-> 0]

\* seeded fault: one save file for every game
save_path_shared(game_name) == "save.sav"

\* format!("{}.sav", game_name)
save_path(game_name) == game_name \o ".sav"

\* a file system with `path` holding `bytes`
WithFile(fs, path, bytes) ==
    [p \in (DOMAIN fs) \cup {path} |-> IF p = path THEN bytes ELSE fs[p]]

\* File::read into `buffer`: the file's bytes over the front of the buffer
ReadInto(buffer, bytes) ==
    [i \in 1..Len(buffer) |-> IF i <= Len(bytes) THEN bytes[i] ELSE buffer[i]]

\* no callback has run / no blob was returned
NoCallback == [name |-> "none", game_name |-> "", expected_size |-> 0]
NoBlob == [returned |-> FALSE, bytes |-> << >>]
NeverSaved == [g \in Games |-> [known |-> FALSE, bytes |-> << >>]]

\* the steps of the callbacks that can fail
SaveFailures == {"none", "open", "write"}
LoadFailures == {"none", "stat", "open", "read"}

\* Callbacks.save: |game_name, _rom_path, save_data|.  `failure` is the file
\* system call that returns an error, if any.  kFileWrite creates the file or
\* empties it; both unwrap()s panic on an error.
SaveCallback(game_name, save_data, failure) ==
    LET path == save_path(game_name)
        opened == WithFile(files, path, << >>)
    IN /\ ~panicked
       /\ UNCHANGED <<sessionVars, frameVars, iter>>
       /\ callback' = [name |-> "save", game_name |-> game_name, expected_size |-> 0]
       /\ loaded' = NoBlob
       /\ IF failure = "open"
          THEN /\ fs_calls' = <<[call |-> "open", path |-> path, ok |-> FALSE]>>
               /\ panicked' = TRUE
               /\ UNCHANGED <<files, saved>>
          ELSE IF failure = "write"
          THEN /\ fs_calls' = <<[call |-> "open", path |-> path, ok |-> TRUE],
                                [call |-> "write", path |-> path, ok |-> FALSE]>>
               /\ panicked' = TRUE
               /\ files' = opened
               /\ UNCHANGED saved
          ELSE /\ fs_calls' = <<[call |-> "open", path |-> path, ok |-> TRUE],
                                [call |-> "write", path |-> path, ok |-> TRUE]>>
               /\ UNCHANGED panicked
               /\ files' = WithFile(opened, path, save_data)
               /\ saved' = [saved EXCEPT ![game_name] = [known |-> TRUE, bytes |-> save_data]]

\* Callbacks.load: |game_name, _rom_path, expected_size|.  stat fails when
\* there is no file at the path, or with `failure` = "stat".
LoadCallback(game_name, expected_size, failure) ==
    LET path == save_path(game_name)
        stat_ok == path \in DOMAIN files /\ failure # "stat"
        stat_call == [call |-> "stat", path |-> path, ok |-> stat_ok]
    IN /\ ~panicked
       /\ UNCHANGED <<sessionVars, frameVars, iter, files, saved>>
       /\ callback' = [name |-> "load", game_name |-> game_name,
                       expected_size |-> expected_size]
       /\ IF ~stat_ok
          THEN /\ fs_calls' = <<stat_call>>
               /\ loaded' = [returned |-> TRUE, bytes |-> Zeroes(expected_size)]
               /\ UNCHANGED panicked
          ELSE IF failure = "open"
          THEN /\ fs_calls' = <<stat_call, [call |-> "open", path |-> path, ok |-> FALSE]>>
               /\ loaded' = NoBlob
               /\ panicked' = TRUE
          ELSE IF failure = "read"
          THEN /\ fs_calls' = <<stat_call, [call |-> "open", path |-> path, ok |-> TRUE],
                                [call |-> "read", path |-> path, ok |-> FALSE]>>
               /\ loaded' = NoBlob
               /\ panicked' = TRUE
          ELSE /\ fs_calls' = <<stat_call, [call |-> "open", path |-> path, ok |-> TRUE],
                                [call |-> "read", path |-> path, ok |-> TRUE]>>
               /\ loaded' = [returned |-> TRUE,
                             bytes |-> ReadInto(Zeroes(Len(files[path])), files[path])]
               /\ UNCHANGED panicked

---------------------------------------------------------------------------
(* The session: State::new and Game::update *)

\* the iteration locals when no iteration of the drawing loop is modelled
NoIteration ==
    [x |-> 0, y |-> 0, done |-> FALSE, gameboy_x |-> 0, gameboy_y |-> 0,
     gameboy_lcd_index |-> 0, shifted_x |-> 0, byte_index |-> 0, bit_index |-> 0,
     byte_before |-> 0, whites |-> << >>]

\* the calls update can get an error from (the ones followed by `?`)
UpdateFailures == {"none", "get_crank_change", "get_button_state", "get_frame",
                   "mark_updated_rows"}
NoRomFailures == {"none", "clear", "draw_text"}

\* the calls of one update that meets no error, in the order of the code
FullTrace ==
    << <<"get_crank_change">>, <<"process_crank_change">>, <<"get_button_state">>,
       <<"joypad">>, <<"step_one_frame">>, <<"get_frame">>, <<"draw">>,
       <<"mark_updated_rows", 0, LCD_ROWS - 1>> >>

\* the calls made when `failure` is the call that returns the error
TraceTo(failure) ==
    CASE failure = "get_crank_change" -> SubSeq(FullTrace, 1, 1)
      [] failure = "get_button_state" -> SubSeq(FullTrace, 1, 3)
      [] failure = "get_frame" -> SubSeq(FullTrace, 1, 6)
      [] OTHER -> FullTrace

\* the data folder at startup: with or without a rom.gb
Disks == {[p \in {"rom.gb"} |-> <<0>>], [p \in {} |-> << >>]}

\* State::new: the display is cleared to black and the callbacks are set;
\* when stat finds rom.gb the session holds a Cpu (whose frame is some shade
\* grid), otherwise it holds none and the helper file is written.
New(disk, first_frame) ==
    LET has_rom == "rom.gb" \in DOMAIN disk
    IN /\ processor = IF has_rom THEN "Some" ELSE "None"
       /\ last_crank_change = 0
       /\ joypad = JoypadReleased
       /\ finished_frame = IF has_rom THEN first_frame ELSE "None"
       /\ framebuffer = BlackFrame
       /\ crank_change = 0
       /\ processed_crank = 0
       /\ trace = << >>
       /\ result = "None"
       /\ files = IF has_rom THEN disk ELSE WithFile(disk, "Game ROM goes here", << >>)
       /\ loaded = NoBlob
       /\ saved = NeverSaved
       /\ callback = NoCallback
       /\ fs_calls = << >>
       /\ panicked = FALSE
       /\ iter = NoIteration

\* Game::update with a Cpu.  `reading`, `btns_held` and `frame` are what the
\* crank, the buttons and the emulator's step give; `failure` is the call
\* that returns an error (the `?` returns it at once), if any.
update(reading, btns_held, frame, failure) ==
    LET polled == failure # "get_crank_change"
        written == polled /\ failure # "get_button_state"
        drawn == written /\ failure # "get_frame"
        impulse == process_crank_change(reading, last_crank_change)
    IN /\ processor = "Some"
       /\ ~panicked
       /\ trace' = TraceTo(failure)
       /\ result' = IF failure = "none" THEN "Ok" ELSE "Err"
       /\ crank_change' = IF polled THEN reading ELSE crank_change
       /\ processed_crank' = IF polled THEN impulse ELSE processed_crank
       /\ last_crank_change' = IF polled THEN reading ELSE last_crank_change
       /\ joypad' = IF written THEN JoypadWritten(btns_held, impulse) ELSE joypad
       /\ finished_frame' = IF written THEN frame ELSE finished_frame
       /\ framebuffer' = IF drawn THEN ComposeFrame(framebuffer, frame) ELSE framebuffer
       /\ UNCHANGED <<processor, saveVars, iter>>

\* State::no_rom_update: clear to white and draw the help text (the glyphs
\* are the system font's and are not modelled)
no_rom_update(failure) ==
    /\ processor = "None"
    /\ ~panicked
    /\ trace' = IF failure = "clear" THEN << <<"clear">> >>
                ELSE << <<"clear">>, <<"draw_text">> >>
    /\ result' = IF failure = "none" THEN "Ok" ELSE "Err"
    /\ framebuffer' = IF failure = "clear" THEN framebuffer ELSE WhiteFrame
    /\ UNCHANGED <<processor, last_crank_change, joypad, finished_frame,
                   crank_change, processed_crank, saveVars, iter>>

Init == \E disk \in Disks, first_frame \in Grids : New(disk, first_frame)

Update == \E reading \in CrankReadings, btns_held \in ButtonStates,
             frame \in Grids, failure \in UpdateFailures :
              update(reading, btns_held, frame, failure)

NoRomUpdate == \E failure \in NoRomFailures : no_rom_update(failure)

Next == Update \/ NoRomUpdate

Spec == Init /\ [][Next]_vars

---------------------------------------------------------------------------
(* The callbacks on their own: the core calls save and load at any time of *)
(* a session that has a ROM.  The display is left out of this              *)
(* specification.                                                          *)

\* a save file left by an earlier session
StoredBlob == <<255>>

InitSave ==
    \E stored \in SUBSET Games :
        /\ processor = "Some"
        /\ last_crank_change = 0
        /\ joypad = JoypadReleased
        /\ finished_frame = "White"
        /\ framebuffer = NoFrame
        /\ crank_change = 0
        /\ processed_crank = 0
        /\ trace = << >>
        /\ result = "None"
        /\ files = [p \in {"rom.gb"} \cup {save_path(g) : g \in stored} |->
                       IF p = "rom.gb" THEN <<0>> ELSE StoredBlob]
        /\ loaded = NoBlob
        /\ saved = NeverSaved
        /\ callback = NoCallback
        /\ fs_calls = << >>
        /\ panicked = FALSE
        /\ iter = NoIteration

Save == \E game_name \in Games, save_data \in Blobs, failure \in SaveFailures :
            SaveCallback(game_name, save_data, failure)

Load == \E game_name \in Games, expected_size \in ExpectedSizes, failure \in LoadFailures :
            LoadCallback(game_name, expected_size, failure)

NextSave == Save \/ Load

SpecSave == InitSave /\ [][NextSave]_vars

\* the latest callback was a load, and every file system call it made succeeded
LoadedFromFile ==
    /\ callback.name = "load"
    /\ Len(fs_calls) = 3
    /\ \A i \in 1..Len(fs_calls) : fs_calls[i].ok

\* C5: a load of a game that has no save file (stat finds nothing at
\* "<game_name>.sav") returns expected_size bytes, all zero, without failing,
\* and leaves every stored file as it was.
C5_LoadAbsentGivesZeros ==
    [][(callback'.name = "load" /\ save_path(callback'.game_name) \notin DOMAIN files)
        => /\ loaded'.returned
           /\ Len(loaded'.bytes) = callback'.expected_size
           /\ \A i \in 1..Len(loaded'.bytes) : loaded'.bytes[i] = 0
           /\ ~panicked'
           /\ files' = files]_vars

C5_Witness ==
    /\ callback.name = "load"
    /\ save_path(callback.game_name) \notin DOMAIN files
    /\ callback.expected_size = MaxBlobLen + 1
    /\ loaded.returned
    /\ Len(loaded.bytes) = MaxBlobLen + 1

\* C6: a load that succeeds returns exactly the bytes of the latest completed
\* save of the same game, whatever expected_size is; saves of other games do
\* not change it, and a later save of the game replaces the earlier bytes.
C6_SaveLoadRoundTrip ==
    (LoadedFromFile /\ saved[callback.game_name].known)
        => /\ loaded.returned
           /\ loaded.bytes = saved[callback.game_name].bytes

C6_Witness ==
    /\ LoadedFromFile
    /\ \A g \in Games : saved[g].known
    /\ \E g \in Games : saved[g].bytes # saved[callback.game_name].bytes
    /\ Len(saved[callback.game_name].bytes) = 1
    /\ callback.expected_size = MaxBlobLen + 1
    /\ loaded.bytes = saved[callback.game_name].bytes

\* C7 (as the specification states it): whichever file system step of a load
\* fails (stat, open or read), the load returns expected_size zero bytes and
\* does not fail.
C7_LoadErrorsAreCaught ==
    (callback.name = "load" /\ \E i \in 1..Len(fs_calls) : ~fs_calls[i].ok)
        => /\ ~panicked
           /\ loaded.returned
           /\ loaded.bytes = Zeroes(callback.expected_size)

---------------------------------------------------------------------------
(* The session's claims *)

\* the latest update got a crank reading / wrote the joypad / drew the frame
CrankPolled(calls) == Len(calls) >= 2
ButtonsPolled(calls) == Len(calls) >= 4
Composed(calls) == Len(calls) >= 7

\* the impulse as the specification words it
ClaimedImpulse(r, previous) ==
    IF previous > 0 /\ r > 0 THEN 0
    ELSE IF previous < 0 /\ r < 0 THEN 0
    ELSE IF r = 0 THEN 0
    ELSE r

\* C1: in a session with a ROM, the impulse of an update that polled the
\* crank is ClaimedImpulse(reading, previous raw reading), the previous
\* reading being 0 at first; what is kept for the next update is the raw
\* reading, not the impulse.
C1_CrankImpulse ==
    [][(processor = "Some" /\ CrankPolled(trace'))
        => /\ processed_crank' = ClaimedImpulse(crank_change', last_crank_change)
           /\ last_crank_change' = crank_change']_vars

\* a same-sign reading was suppressed, and the raw reading is what is kept
C1_Witness ==
    /\ processor = "Some"
    /\ CrankPolled(trace)
    /\ crank_change > 0
    /\ processed_crank = 0
    /\ last_crank_change = crank_change

---------------------------------------------------------------------------
(* The image the specification describes, to compare frames with *)

\* floor(n / scale) with scale = 5/3
ClaimedSource(n) == (3 * n) \div 5

\* the dither decision for a shade at the unshifted (x, y)
ClaimedOn(shade, x, y) ==
    CASE shade = "Black" -> FALSE
      [] shade = "White" -> TRUE
      [] shade = "DarkGrey" -> (x + (y % 2)) % 3 = 0
      [] shade = "LightGrey" -> (x + (y % 2)) % 2 = 0

\* the bit of pixel column `column` of row y, for the columns of the image
ClaimedBit(grid, column, y) ==
    LET x == column - 67
        shade == ShadeAt(grid, ClaimedSource(y) * 160 + ClaimedSource(x))
    IN IF ClaimedOn(shade, x, y) THEN 1 ELSE 0

\* the pixel columns of the image: 266 columns after a margin of 67
ImageColumns == 67..(67 + 266 - 1)

\* the bits of byte c of a row that are pixels of the image (bit 7 is the
\* leftmost pixel), and the bits that are in the margins
ImageBits == [c \in 0..51 |->
    ((IF 8 * c \in ImageColumns THEN 128 ELSE 0) + (IF 8 * c + 1 \in ImageColumns THEN 64 ELSE 0))
    + ((IF 8 * c + 2 \in ImageColumns THEN 32 ELSE 0) + (IF 8 * c + 3 \in ImageColumns THEN 16 ELSE 0))
    + ((IF 8 * c + 4 \in ImageColumns THEN 8 ELSE 0) + (IF 8 * c + 5 \in ImageColumns THEN 4 ELSE 0))
    + ((IF 8 * c + 6 \in ImageColumns THEN 2 ELSE 0) + (IF 8 * c + 7 \in ImageColumns THEN 1 ELSE 0))]
MarginBits == [c \in 0..51 |-> 255 - ImageBits[c]]
\* the bytes of a row that hold a pixel of the image
ImageBytes == {c \in 0..51 : ImageBits[c] # 0}

\* byte c of row y of the image of `grid`, the margin bits left 0
ClaimedByte(grid, y, c) ==
    LET on(k) == IF 8 * c + k \in ImageColumns THEN ClaimedBit(grid, 8 * c + k, y) ELSE 0
    IN ((128 * on(0) + 64 * on(1)) + (32 * on(2) + 16 * on(3)))
       + ((8 * on(4) + 4 * on(5)) + (2 * on(6) + on(7)))

ClaimedImage ==
    [grid \in Grids |-> [y \in 0..239 |-> [c \in ImageBytes |-> ClaimedByte(grid, y, c)]]]

\* rows 0..hi of `frame` show the image of `grid` in the image's columns
ShowsImage(frame, grid, rows) ==
    \A y \in rows : \A c \in ImageBytes :
        AndTable[frame[y][c]][ImageBits[c]] = ClaimedImage[grid][y][c]

\* the rows C10 looks at
ProbeRows == {0, 239}

\* the calls of an update in the order the specification gives
ClaimedOrder ==
    << <<"get_crank_change">>, <<"process_crank_change">>, <<"get_button_state">>,
       <<"joypad">>, <<"step_one_frame">>, <<"get_frame">>, <<"draw">>,
       <<"mark_updated_rows", 0, 239>> >>

\* what C10 says of an update whose polls succeeded
StepsInOrder ==
    /\ trace = ClaimedOrder
    /\ last_crank_change = crank_change
    /\ DOMAIN joypad = {"a_pressed", "b_pressed", "up_pressed", "down_pressed",
                        "left_pressed", "right_pressed", "start_pressed", "select_pressed"}
    /\ ShowsImage(framebuffer, finished_frame, ProbeRows)

\* what C10 says of a session that found no ROM
NoRomDoesNothing ==
    /\ last_crank_change = 0
    /\ finished_frame = "None"
    /\ joypad = JoypadReleased
    /\ \A i \in 1..Len(trace) : trace[i][1] \in {"clear", "draw_text"}

---------------------------------------------------------------------------
(* The frames of a session with a ROM: the crank at rest or turning one    *)
(* way, every grid, every outcome of update's calls.                       *)

InitFrame == \E first_frame \in Grids : New([p \in {"rom.gb"} |-> <<0>>], first_frame)

UpdateFrame ==
    \E reading \in {0, MaxCrank}, btns_held \in ButtonStates, frame \in Grids,
       failure \in UpdateFailures :
        update(reading, btns_held, frame, failure)

SpecFrame == InitFrame /\ [][UpdateFrame]_vars

\* C3: after update composes a frame, the bit of pixel column x + 67 of row
\* y, for 0 <= x < 266 and 0 <= y < 240, is the dither decision for the shade
\* of source pixel (floor(x / (5/3)), floor(y / (5/3))) of the current grid,
\* taken at the unshifted (x, y): whatever the frame buffer held before.
C3_DitheredScaledImage ==
    (processor = "Some" /\ Composed(trace))
        => ShowsImage(framebuffer, finished_frame, 0..239)

\* a frame of all four shades is on the display: x = 2 and x = 3 have the
\* same DarkGrey source pixel, the one is off and the other on
C3_Witness ==
    /\ processor = "Some"
    /\ Composed(trace)
    /\ finished_frame = "Bands"
    /\ ShadeAt("Bands", ClaimedSource(3)) = "DarkGrey"
    /\ ShadeAt("Bands", ClaimedSource(2)) = "DarkGrey"
    /\ AndTable[framebuffer[0][8]][4] = 0       \* x = 2, column 69
    /\ AndTable[framebuffer[0][8]][2] = 2       \* x = 3, column 70

\* the frame whose on bits are the positions of the image's columns
ImageMask == [y \in 0..239 |-> [c \in 0..51 |-> ImageBits[c]]]

\* C4 (as the specification states it): composing a frame writes a bit at
\* every position of the 400 x 240 canvas, so nothing of the canvas is left
\* as it was before.
C4_WholeCanvasRewritten ==
    (processor = "Some" /\ Composed(trace)) => WrittenMask = WhiteFrame

\* C4, amended: composing a frame writes a bit at every position of the
\* image, columns 67..332 of each of the 240 rows, and at no other: the
\* margins, columns 0..66 and 333..399, are left as the startup clear to
\* black made them.
C4_ImageColumnsRewritten ==
    (processor = "Some" /\ Composed(trace))
        => /\ WrittenMask = ImageMask
           /\ \A y \in 0..239 : \A c \in 0..51 :
                MarginBits[c] # 0 => AndTable[framebuffer[y][c]][MarginBits[c]] = 0

\* an all-White frame is on the display and the margins are still black
C4_Witness ==
    /\ processor = "Some"
    /\ Composed(trace)
    /\ finished_frame = "White"
    /\ framebuffer[0][0] = 0
    /\ framebuffer[0][8] = 31
    /\ framebuffer[239][9] = 255
    /\ framebuffer[239][41] = 248
    /\ framebuffer[239][51] = 0

---------------------------------------------------------------------------
(* One iteration of update's drawing loop, and draw_pixel_at on its own:   *)
(* every (x, y) the loops pass, and on two rows the writes themselves.     *)

\* the most writes made to one pixel
MaxWrites == 2
\* the rows whose frames are held: the first and the last
WrittenRows == {0, LCD_ROWS - 1}
\* a frame with set and clear bits in every byte (0xA5)
PatternFrame == [r \in 0..(LCD_ROWS - 1) |-> [c \in 0..(LCD_ROWSIZE - 1) |-> 165]]
StartFrames == {BlackFrame, PatternFrame}

InitPixel ==
    \E x \in 0..(playdate_x_pixels - 1), y \in 0..(playdate_y_pixels - 1),
       start \in StartFrames :
        /\ processor = "Some"
        /\ last_crank_change = 0
        /\ joypad = JoypadReleased
        /\ finished_frame = "White"
        /\ framebuffer = IF y \in WrittenRows THEN start ELSE NoFrame
        /\ crank_change = 0
        /\ processed_crank = 0
        /\ trace = << >>
        /\ result = "None"
        /\ files = [p \in {"rom.gb"} |-> <<0>>]
        /\ loaded = NoBlob
        /\ saved = NeverSaved
        /\ callback = NoCallback
        /\ fs_calls = << >>
        /\ panicked = FALSE
        /\ iter = [NoIteration EXCEPT !.x = x, !.y = y]

\* the loop body up to the call of draw_pixel_at, and draw_pixel_at up to its
\* read of the frame buffer: the indices
Iterate ==
    /\ ~iter.done
    /\ iter' = [iter EXCEPT !.done = TRUE,
                            !.gameboy_x = gameboy_x(iter.x),
                            !.gameboy_y = gameboy_y(iter.y),
                            !.gameboy_lcd_index = gameboy_lcd_index(iter.x, iter.y),
                            !.shifted_x = shifted_x(iter.x),
                            !.byte_index = byte_index(iter.x, iter.y),
                            !.bit_index = bit_index(iter.x)]
    /\ UNCHANGED <<sessionVars, frameVars, saveVars>>

\* draw_pixel_at(framebuffer, x, y, white)
WritePixel ==
    \E white \in BOOLEAN :
        /\ iter.done
        /\ framebuffer # NoFrame
        /\ Len(iter.whites) < MaxWrites
        /\ framebuffer' = draw_pixel_at(framebuffer, iter.x, iter.y, white)
        /\ iter' = [iter EXCEPT !.whites = Append(@, white),
                                !.byte_before = IF iter.whites = << >>
                                                THEN ByteAt(framebuffer, iter.byte_index)
                                                ELSE @]
        /\ UNCHANGED <<sessionVars, saveVars>>

NextPixel == Iterate \/ WritePixel

SpecPixel == InitPixel /\ [][NextPixel]_vars

\* bit k of byte b, and b with bit k made `on`
BitOf(b, k) == (b \div (2 ^ k)) % 2
SetBit(b, k, on) == (b - BitOf(b, k) * (2 ^ k)) + (IF on THEN 2 ^ k ELSE 0)

\* the address the specification gives pixel (raw_x, y)
ClaimedByteIndex(raw_x, y) == y * 52 + ((raw_x + 67) \div 8)
ClaimedBitIndex(raw_x) == 7 - ((raw_x + 67) % 8)

\* C8: draw_pixel_at(framebuffer, raw_x, y, white) makes bit
\* 7 - ((raw_x + 67) mod 8) of byte y * 52 + (raw_x + 67) / 8 equal to white
\* and changes nothing else; the bit reads back as written; after any writes
\* the seven sibling bits are as before the first; and the address of a pixel
\* gives the pixel back, so no two pixels share a bit.
C8_SingleBitWrite ==
    /\ [][(iter'.whites # iter.whites)
           => LET white == iter'.whites[Len(iter'.whites)]
                  index == ClaimedByteIndex(iter.x, iter.y)
                  k == ClaimedBitIndex(iter.x)
              IN /\ framebuffer' = WithByte(framebuffer, index,
                                            SetBit(ByteAt(framebuffer, index), k, white))
                 /\ BitOf(ByteAt(framebuffer', index), k) = (IF white THEN 1 ELSE 0)]_vars
    /\ [](iter.whites # << >>
           => SetBit(ByteAt(framebuffer, ClaimedByteIndex(iter.x, iter.y)),
                     ClaimedBitIndex(iter.x), FALSE)
              = SetBit(iter.byte_before, ClaimedBitIndex(iter.x), FALSE))
    /\ [](iter.done
           => /\ iter.byte_index \div 52 = iter.y
              /\ ((iter.byte_index % 52) * 8 + (7 - iter.bit_index)) - 67 = iter.x
              /\ iter.bit_index \in 0..7)

\* a set bit was written on and then off: the byte lost that bit only
C8_Witness ==
    /\ iter.whites = <<TRUE, FALSE>>
    /\ iter.byte_before = 165
    /\ BitOf(iter.byte_before, iter.bit_index) = 1
    /\ ByteAt(framebuffer, iter.byte_index) = 165 - (2 ^ iter.bit_index)

\* C9: for every (x, y) the loops pass, the source coordinates are inside the
\* 160 x 144 grid, so the grid index is below 160 * 144; the shifted column is
\* below 400 and the byte index below 52 * 240; and the image has margins of
\* 67 pixels on either side of the 400 columns.
C9_IndicesInRange ==
    iter.done
        => /\ iter.gameboy_x \in 0..159
           /\ iter.gameboy_y \in 0..143
           /\ iter.gameboy_lcd_index \in 0..(160 * 144 - 1)
           /\ iter.shifted_x \in 0..399
           /\ iter.byte_index \in 0..(52 * 240 - 1)
           /\ playdate_x_pixels = 266
           /\ playdate_y_pixels = 240
           /\ START_X = 67
           /\ 400 - (START_X + playdate_x_pixels) = 67

\* the last pixel of the last row: source pixel (159, 143), column 332
C9_Witness ==
    /\ iter.done
    /\ iter.x = 265
    /\ iter.y = 239
    /\ iter.gameboy_x = 159
    /\ iter.gameboy_y = 143
    /\ iter.shifted_x = 332
    /\ iter.byte_index = 52 * 240 - 11

===========================================================================
